---- MODULE Spec2Model ----
(***************************************************************************)
(* EMIT radiometric calibration (emitrdn.py): calibration loading in       *)
(* Config.__init__, the per-frame correction stages, the bad-pixel         *)
(* inference of infer_bad / fix_bad, and the stream loop of main().        *)
(*                                                                         *)
(* Numbers.  A sample is a pair <<n, d>>: the rational n/d in lowest terms *)
(* with d > 0, or a non-finite float when d = 0 (<<1,0>> = +inf,           *)
(* <<-1,0>> = -inf, <<0,0>> = NaN).  Arithmetic is exact; float32/float64  *)
(* rounding and overflow are not modelled.                                 *)
(*                                                                         *)
(* Indices.  numpy indices are 0-based, the sequences below are 1-based:   *)
(* row/column k of the source is index k+1 here.  Orders are preserved, so *)
(* "first index" means the same in both.                                   *)
(***************************************************************************)
EXTENDS Integers, Sequences, FiniteSets, TLC

\* ------------------------------------------------------------------------
\* float arithmetic (exact rationals with inf/NaN)
\* ------------------------------------------------------------------------
Abs(x) == IF x < 0 THEN -x ELSE x

Sign(x) == IF x < 0 THEN -1 ELSE IF x > 0 THEN 1 ELSE 0

RECURSIVE GCD(_, _)
GCD(a, b) == IF b = 0 THEN a ELSE GCD(b, a % b)

Norm(n, d) ==
    IF d = 0 THEN <<Sign(n), 0>>
    ELSE LET g == GCD(Abs(n), Abs(d))
         IN  <<Sign(d) * (n \div g), Abs(d) \div g>>

R(k) == <<k, 1>>

NaN == <<0, 0>>

Inf == <<1, 0>>

isfinite(a) == a[2] # 0

Add(a, b) ==
    IF isfinite(a) /\ isfinite(b) THEN Norm(a[1] * b[2] + b[1] * a[2], a[2] * b[2])
    ELSE IF isfinite(a) THEN b
    ELSE IF isfinite(b) THEN a
    ELSE IF a = b THEN a ELSE NaN

Neg(a) == <<-a[1], a[2]>>

Sub(a, b) == Add(a, Neg(b))

Mul(a, b) == Norm(a[1] * b[1], a[2] * b[2])

Div(a, b) ==
    IF isfinite(a) /\ isfinite(b) THEN Norm(a[1] * b[2], a[2] * b[1])
    ELSE IF isfinite(a) THEN (IF b = NaN THEN NaN ELSE R(0))
    ELSE IF isfinite(b) THEN
         (IF b[1] < 0 THEN Neg(a) ELSE a)
    ELSE NaN

\* a < b on floats: false whenever either side is NaN
Less(a, b) ==
    IF a = NaN \/ b = NaN THEN FALSE
    ELSE IF ~isfinite(a) THEN a[1] < 0 /\ b # a
    ELSE IF ~isfinite(b) THEN b[1] > 0
    ELSE a[1] * b[2] < b[1] * a[2]

RECURSIVE SumSeq(_)
SumSeq(s) == IF s = <<>> THEN R(0) ELSE Add(Head(s), SumSeq(Tail(s)))

Dot(u, v) == SumSeq([i \in 1..Len(u) |-> Mul(u[i], v[i])])

\* ------------------------------------------------------------------------
\* arrays: a vector is a sequence of samples, a matrix a sequence of rows
\* ------------------------------------------------------------------------
NCols(m) == IF m = <<>> THEN 0 ELSE Len(m[1])

Column(m, c) == [r \in 1..Len(m) |-> m[r][c]]

Rows(m, idx) == [k \in 1..Len(idx) |-> m[idx[k]]]

MatMap2(Op(_, _), a, b) ==
    [r \in 1..Len(a) |-> [c \in 1..Len(a[r]) |-> Op(a[r][c], b[r][c])]]

MatVec(m, v) == [r \in 1..Len(m) |-> Dot(m[r], v)]

\* sp.fromfile(...).reshape(shape): the flat samples in row-major order
reshape2(flat, nr, nc) ==
    [r \in 1..nr |-> [c \in 1..nc |-> flat[(r - 1) * nc + c]]]

\* obj[invalid] = 0 with invalid = logical_not(isfinite(obj))
ZeroNonFiniteVec(v) == [i \in 1..Len(v) |-> IF isfinite(v[i]) THEN v[i] ELSE R(0)]

ZeroNonFinite(m) == [r \in 1..Len(m) |-> ZeroNonFiniteVec(m[r])]

\* ------------------------------------------------------------------------
\* the build: what LAPACK's least-squares driver does with a NaN matrix
\* (numpy raises LinAlgError when the SVD does not converge, other builds
\* return NaN coefficients).  Fixed for a run, chosen in Init.
\* ------------------------------------------------------------------------
VARIABLE lapack

LapackModes == {"raise", "nan"}

\* ------------------------------------------------------------------------
\* correction stages (pure functions of frame and config)
\* ------------------------------------------------------------------------
subtract_dark(frame, config) == MatMap2(Sub, frame, config.dark)

correct_pedestal_shift(frame, config) ==
    LET n == Len(config.dark_channels)
        mean_dark == [c \in 1..NCols(frame) |->
                        Div(SumSeq([k \in 1..n |-> frame[config.dark_channels[k]][c]]),
                            R(n))]
    IN  [r \in 1..Len(frame) |-> [c \in 1..Len(frame[r]) |-> Sub(frame[r][c], mean_dark[c])]]

\* sp.where(v)[0]: the indices of the non-zero entries, ascending
RECURSIVE WhereFrom(_, _)
WhereFrom(v, i) ==
    IF i > Len(v) THEN <<>>
    ELSE IF v[i] # R(0) THEN <<i>> \o WhereFrom(v, i + 1)
    ELSE WhereFrom(v, i + 1)

where(v) == WhereFrom(v, 1)

\* sa[col] = -9e99: any value below every cosine (>= -1) acts the same, and
\* 9e99 does not fit the checker's integers.
SelfSimilarity == <<-9, 1>>

\* sp.argmax(sa): the first NaN if there is one, else the first index
\* attaining the maximum
argmax(sa) ==
    IF \E i \in 1..Len(sa) : sa[i] = NaN
    THEN CHOOSE i \in 1..Len(sa) : sa[i] = NaN /\ \A j \in 1..(i - 1) : sa[j] # NaN
    ELSE CHOOSE i \in 1..Len(sa) :
            /\ \A j \in 1..Len(sa) : ~Less(sa[i], sa[j])
            /\ \A j \in 1..(i - 1) : Less(sa[j], sa[i])

\* numpy.polyfit(x, y, 1): least squares on the column-scaled Vandermonde
\* matrix.  Distinct x: the regression line.  All x equal to c # 0 (rank 1):
\* the minimum-norm solution (mean(y)/(2c), mean(y)/2).  All x equal to 0:
\* the scaling divides 0 by 0 and lstsq receives NaN (see lapack).  No
\* sample: TypeError.
polyfit(x, y) ==
    LET n   == Len(x)
        sx  == SumSeq(x)
        sy  == SumSeq(y)
        sxx == Dot(x, x)
        sxy == Dot(x, y)
        den == Sub(Mul(R(n), sxx), Mul(sx, sx))
    IN  IF n = 0 THEN [raised |-> TRUE, p |-> <<NaN, NaN>>]
        ELSE IF den # R(0) THEN
            LET a == Div(Sub(Mul(R(n), sxy), Mul(sx, sy)), den)
                b == Div(Sub(sy, Mul(a, sx)), R(n))
            IN  [raised |-> FALSE, p |-> <<a, b>>]
        ELSE IF x[1] # R(0) THEN
            LET ybar == Div(sy, R(n))
            IN  [raised |-> FALSE,
                 p |-> <<Div(ybar, Mul(R(2), x[1])), Div(ybar, R(2))>>]
        ELSE [raised |-> lapack = "raise", p |-> <<NaN, NaN>>]

\* numpy.polyval(p, x) for a degree-1 p, by Horner's rule from y = 0
polyval(p, x) == Add(Mul(Add(Mul(R(0), x), p[1]), x), p[2])

\* The similarity sa[j] = (u_j . u_col) / (|u_j| |u_col|) over the clean
\* channels is kept as sign(dot) dot^2 / (|u_j|^2 |u_col|^2), which orders
\* the columns exactly as sa does and is NaN exactly where sa is (0/0).
Similarity(frame, clean, j, col) ==
    LET uj == Rows(Column(frame, j), clean)
        uc == Rows(Column(frame, col), clean)
        d  == Dot(uj, uc)
    IN  Div(Mul(R(Sign(d[1])), Mul(d, d)), Mul(Dot(uj, uj), Dot(uc, uc)))

\* faulty variant of Repaired: new = polyval(p, frame[:, best]), every row overwritten
RepairedAllRows(flagged, p, ref, own) == polyval(p, ref)

\* new[bad] = polyval(p, frame[bad, best]), one row of it: a flagged row
\* takes the fitted value, any other row keeps its own
Repaired(flagged, p, ref, own) == IF flagged THEN polyval(p, ref) ELSE own

\* infer_bad(frame, col, config).  new = frame[:,col] is a view, so the
\* assignment new[bad] = ... writes into the caller's frame: the result
\* carries the frame as it is after the call.
infer_bad(frame, col, config) ==
    LET bad  == where(Column(config.bad, col))
        sa   == [j \in 1..NCols(frame) |->
                    IF j = col THEN SelfSimilarity
                    ELSE Similarity(frame, config.clean, j, col)]
        best == argmax(sa)
        fit  == polyfit(Rows(Column(frame, best), config.clean),
                        Rows(Column(frame, col), config.clean))
        new  == [r \in 1..Len(frame) |->
                    Repaired(config.bad[r][col] # R(0), fit.p, frame[r][best],
                             frame[r][col])]
    IN  [raised |-> fit.raised,
         best   |-> best,
         bad    |-> bad,
         new    |-> new,
         frame  |-> IF fit.raised THEN frame
                    ELSE [r \in 1..Len(frame) |-> [frame[r] EXCEPT ![col] = new[r]]]]

\* sp.nonzero(config.bad.any(axis=0))[0]
RECURSIVE FlaggedFrom(_, _)
FlaggedFrom(bad, c) ==
    IF c > NCols(bad) THEN <<>>
    ELSE IF \E r \in 1..Len(bad) : bad[r][c] # R(0)
         THEN <<c>> \o FlaggedFrom(bad, c + 1)
         ELSE FlaggedFrom(bad, c + 1)

FlaggedColumns(bad) == FlaggedFrom(bad, 1)

\* one iteration of the loop of fix_bad: fixed[:,col] = infer_bad(frame, col, config).
\* picks records, per column repaired, the reference column and the rows
\* written.
FixColumn(st, col, config) ==
    LET res == infer_bad(st.frame, col, config)
    IN  IF st.raised \/ res.raised
        THEN [st EXCEPT !.raised = TRUE]
        ELSE [raised |-> FALSE,
              frame  |-> res.frame,
              fixed  |-> [r \in 1..Len(st.fixed) |->
                            [st.fixed[r] EXCEPT ![col] = res.new[r]]],
              picks  |-> Append(st.picks,
                                [col |-> col, best |-> res.best, bad |-> res.bad])]

RECURSIVE FixColumns(_, _, _)
FixColumns(st, cols, config) ==
    IF cols = <<>> THEN st
    ELSE FixColumns(FixColumn(st, Head(cols), config), Tail(cols), config)

\* fix_bad(frame, config): [raised, frame (the argument after the call), fixed]
fix_bad(frame, config) ==
    FixColumns([raised |-> FALSE, frame |-> frame, fixed |-> frame, picks |-> <<>>],
               FlaggedColumns(config.bad), config)

correct_spatial_resp(frame, crf_correction) ==
    [i \in 1..Len(frame) |-> MatVec(crf_correction, frame[i])]

correct_spectral_resp(frame, srf_correction) ==
    LET cols == [i \in 1..NCols(frame) |-> MatVec(srf_correction, Column(frame, i))]
    IN  [r \in 1..Len(frame) |-> [i \in 1..NCols(frame) |-> cols[i][r]]]

\* the 1.6 of coef1 and coef2
TemplateScale == <<8, 5>>

\* faulty variant of TemplateGhost: the template added to the scaled averages
TemplateGhostAdded(scale, avgs, t) == Add(Mul(scale, avgs), t)

\* one entry of coef[:, :ntemplate] = scale * (avg + avg + avg) @ pg_template
TemplateGhost(scale, avgs, t) == Mul(Mul(scale, avgs), t)

\* correct_panel_ghost(frame, config): [raised, new].  An assignment of the
\* (rows x ntemplate) product into coef[:, :ntemplate] raises ValueError when
\* ntemplate > panel_width; indexing a panel beyond the last column raises
\* IndexError; columns beyond the fourth panel stay 0 (new = sp.zeros).
correct_panel_ghost(frame, config) ==
    LET pw        == config.panel_width
        ntemplate == Len(config.pg_template)
        g         == config.panel_ghost_correction
        panel(p)  == [k \in 1..pw |-> (p - 1) * pw + k]
        others(p) == {q \in 1..4 : q # p}
        avg(p, r) == Div(SumSeq([k \in 1..pw |-> frame[r][panel(p)[k]]]), R(pw))
        SumOver(S, f(_)) ==
            LET RECURSIVE acc(_)
                acc(T) == IF T = {} THEN R(0)
                          ELSE LET q == CHOOSE x \in T : \A y \in T : x <= y
                               IN  Add(f(q), acc(T \ {q}))
            IN  acc(S)
        scale(p)  == IF p <= 2 THEN TemplateScale ELSE R(1)
        coef(p, r, k) ==
            IF k <= ntemplate
            THEN LET s == SumOver(others(p), LAMBDA q : avg(q, r))
                 IN  TemplateGhost(scale(p), s, config.pg_template[k])
            ELSE LET s == SumOver(others(p), LAMBDA q : frame[r][panel(q)[k]])
                 IN  Mul(g, s)
        new == [r \in 1..Len(frame) |-> [c \in 1..NCols(frame) |->
                    IF c > 4 * pw THEN R(0)
                    ELSE LET p == ((c - 1) \div pw) + 1
                             k == ((c - 1) % pw) + 1
                         IN  Add(frame[r][c], coef(p, r, k))]]
    IN  IF NCols(frame) < 4 * pw \/ ntemplate > pw
        THEN [raised |-> TRUE, new |-> frame]
        ELSE [raised |-> FALSE, new |-> new]

\* ------------------------------------------------------------------------
\* state of a run
\* ------------------------------------------------------------------------
VARIABLES pc, exc, json, files, config, log, stream, pos, raw, frame,
          out, lines, hdr, trace, call

vars == <<lapack, pc, exc, json, files, config, log, stream, pos, raw, frame,
          out, lines, hdr, trace, call>>

\* ------------------------------------------------------------------------
\* inputs of a run: the configuration document, the calibration files and
\* the raw input stream
\* ------------------------------------------------------------------------
channels_raw == 2

columns_raw == 4

header_channels == 1

panel_width == 1

\* the (65536,) of the linearity table, shortened
LinearityLen == 2

\* the longest input stream, in complete records
MaxRecords == 2

None == <<>>

Ints(s) == [i \in 1..Len(s) |-> R(s[i])]

Without(rec, key) == [k \in DOMAIN rec \ {key} |-> rec[k]]

With(rec, key, val) == (key :> val) @@ rec

BaseDoc ==
    [dark_frame_file              |-> "dark",
     spectral_calibration_file    |-> "spectral",
     srf_correction_file          |-> "srf",
     crf_correction_file          |-> "crf",
     bad_element_file             |-> "bad",
     flat_field_file              |-> "flat",
     radiometric_coefficient_file |-> "rad",
     linearity_file               |-> "lin",
     channels_raw                 |-> channels_raw,
     columns_raw                  |-> columns_raw,
     channels                     |-> channels_raw,
     columns                      |-> columns_raw,
     header_channels              |-> header_channels,
     flat_field_limits            |-> None,
     dark_channels                |-> <<1>>,
     panel_width                  |-> panel_width,
     pg_template                  |-> <<<<1, 2>>>>,
     panel_ghost_correction       |-> <<1, 4>>,
     reverse_channels             |-> FALSE]

PathKeys ==
    {"dark_frame_file", "spectral_calibration_file", "srf_correction_file",
     "crf_correction_file", "bad_element_file", "flat_field_file",
     "radiometric_coefficient_file", "linearity_file"}

\* documents every calibration path of which is present
CoreDocs ==
    {BaseDoc,
     [BaseDoc EXCEPT !.flat_field_limits = <<R(1), R(2)>>],
     [BaseDoc EXCEPT !.reverse_channels = TRUE]}

\* documents with one calibration path absent
MissingDocs == {Without(BaseDoc, k) : k \in PathKeys}

BaseFiles ==
    [dark     |-> Ints(<<1, 1, 1, 1,  0, 1, 0, 1,   9, 9, 9, 9,  9, 9, 9, 9>>),
     spectral |-> <<Ints(<<0, 1, 1>>), Ints(<<1, 2, 1>>)>>,
     srf      |-> Ints(<<1, 0,  1, 1>>),
     crf      |-> Ints(<<1, 0, 0, 0,  0, 1, 0, 0,  0, 1, 1, 0,  0, 0, 0, 1>>),
     bad      |-> Ints(<<0, 0, 0, 0,  0, 0, 0, 0>>),
     flat     |-> Ints(<<1, 2, 1, 1,  1, 1, 3, 1,   9, 9, 9, 9,  9, 9, 9, 9>>),
     rad      |-> <<Ints(<<2, 0, 0>>), Ints(<<3, 0, 0>>)>>,
     lin      |-> Ints(<<0, 1>>)]

Poke(flat, i, v) == [flat EXCEPT ![i] = v]

\* file sets with a non-finite sample, with flagged pixels, or of a size
\* that does not match the declared dimensions
FileVariants ==
    {BaseFiles,
     [BaseFiles EXCEPT !.dark = Poke(@, 2, NaN)],
     [BaseFiles EXCEPT !.spectral = <<Ints(<<0, 1, 1>>), <<R(1), NaN, R(1)>>>>],
     [BaseFiles EXCEPT !.spectral = <<Ints(<<0, 1, 1>>), <<R(1), R(2), NaN>>>>],
     [BaseFiles EXCEPT !.srf = Poke(@, 2, Inf)],
     [BaseFiles EXCEPT !.crf = Poke(@, 16, NaN)],
     [BaseFiles EXCEPT !.flat = Poke(@, 3, NaN)],
     [BaseFiles EXCEPT !.rad = <<Ints(<<2, 0, 0>>), <<Neg(Inf), R(0), R(0)>>>>],
     [BaseFiles EXCEPT !.bad = Ints(<<0, 0, 0, 0,  1, 0, 0, 0>>)],
     [BaseFiles EXCEPT !.bad = Ints(<<0, 0, 0, 0,  0, 1, 1, 0>>)],
     [BaseFiles EXCEPT !.bad = Ints(<<0, 0, 1, 0,  1, 0, 0, 0>>)],
     [BaseFiles EXCEPT !.dark = SubSeq(@, 1, 15)],
     [BaseFiles EXCEPT !.spectral = <<Ints(<<0, 1>>), Ints(<<1, 2>>)>>],
     [BaseFiles EXCEPT !.srf = @ \o <<R(0)>>],
     [BaseFiles EXCEPT !.crf = SubSeq(@, 1, 9)],
     [BaseFiles EXCEPT !.bad = SubSeq(@, 1, 4)],
     [BaseFiles EXCEPT !.flat = SubSeq(@, 1, 8)],
     [BaseFiles EXCEPT !.rad = <<Ints(<<2, 0>>), Ints(<<3, 0>>)>>],
     [BaseFiles EXCEPT !.lin = <<R(0)>>]}

Scenarios == (MissingDocs \X {BaseFiles}) \cup (CoreDocs \X FileVariants)

\* raw records: (header_channels + channels_raw) x columns_raw int16 samples
RawRecords ==
    {<<7, 7, 7, 7,   3, 5, 2, 4,   1, 1, 2, 0>>,
     <<0, 0, 0, 0,  -1, 2, 0, 3,   2, 2, 1, 1>>}

RecordLen == (header_channels + channels_raw) * columns_raw

RECURSIVE Concat(_)
Concat(ss) == IF ss = <<>> THEN <<>> ELSE Head(ss) \o Concat(Tail(ss))

\* a stream: up to MaxRecords complete records, then a trailing record of
\* 0, 1 or RecordLen - 1 samples
Streams ==
    {Concat(recs) \o SubSeq(tail, 1, t) :
        recs \in UNION {[1..n -> RawRecords] : n \in 0..MaxRecords},
        tail \in {<<4, 4, 4, 4,   1, 0, 2, 1,   0, 3, 1, 1>>},
        t \in {0, 1, RecordLen - 1}}

\* ------------------------------------------------------------------------
\* Config.__init__
\* ------------------------------------------------------------------------
inputs == <<lapack, json, files, stream>>

driver == <<pos, raw, frame, out, lines, hdr, trace>>

Raise(name) == pc' = "raised" /\ exc' = name

\* sp.loadtxt(f).T: the columns of the text table
loadtxtT(rows) == [c \in 1..NCols(rows) |-> Column(rows, c)]

Scale(v, k) == [i \in 1..Len(v) |-> Mul(v[i], R(k))]

\* the except clauses of the try block: the error is logged and
\* construction goes on with the NaN check
LoadFails(msg) ==
    /\ log' = Append(log, <<"error", msg, 0, "">>)
    /\ pc' = "check_nans"
    /\ UNCHANGED config

MissingFile == LoadFails("One or more missing calibration files")

BadSize == LoadFails("Incorrect file size for calibration data")

Loaded(name, value, next) ==
    /\ config' = With(config, name, value)
    /\ pc' = next
    /\ UNCHANGED log

\* a binary file reshaped to (planes, nr, nc), plane 0 kept
LoadBinary(key, name, planes, nr, nc, next) ==
    IF key \notin DOMAIN config THEN MissingFile
    ELSE LET flat == files[config[key]]
         IN  IF Len(flat) # planes * nr * nc THEN BadSize
             ELSE Loaded(name, reshape2(flat, nr, nc), next)

ReadConfig ==
    /\ pc = "config_open"
    /\ config' = json
    /\ pc' = "load_dark"
    /\ UNCHANGED <<inputs, driver, exc, log, call>>

LoadDark ==
    /\ pc = "load_dark"
    /\ LoadBinary("dark_frame_file", "dark", 2, config.channels_raw,
                  config.columns_raw, "load_spectral")
    /\ UNCHANGED <<inputs, driver, exc, call>>

LoadSpectral ==
    /\ pc = "load_spectral"
    /\ IF "spectral_calibration_file" \notin DOMAIN config THEN MissingFile
       ELSE LET t == loadtxtT(files[config.spectral_calibration_file])
            IN  IF Len(t) # 3 THEN BadSize
                ELSE /\ config' = With(With(config, "wl", Scale(t[2], 1000)),
                                       "fwhm", Scale(t[3], 1000))
                     /\ pc' = "load_srf"
                     /\ UNCHANGED log
    /\ UNCHANGED <<inputs, driver, exc, call>>

LoadSrf ==
    /\ pc = "load_srf"
    /\ LoadBinary("srf_correction_file", "srf_correction", 1, config.channels_raw,
                  config.channels_raw, "load_crf")
    /\ UNCHANGED <<inputs, driver, exc, call>>

LoadCrf ==
    /\ pc = "load_crf"
    /\ LoadBinary("crf_correction_file", "crf_correction", 1, config.columns_raw,
                  config.columns_raw, "load_bad")
    /\ UNCHANGED <<inputs, driver, exc, call>>

LoadBad ==
    /\ pc = "load_bad"
    /\ LoadBinary("bad_element_file", "bad", 1, config.channels_raw,
                  config.columns_raw, "load_flat")
    /\ UNCHANGED <<inputs, driver, exc, call>>

LoadFlat ==
    /\ pc = "load_flat"
    /\ LoadBinary("flat_field_file", "flat_field", 2, config.channels_raw,
                  config.columns_raw, "load_rad")
    /\ UNCHANGED <<inputs, driver, exc, call>>

LoadRadiometric ==
    /\ pc = "load_rad"
    /\ IF "radiometric_coefficient_file" \notin DOMAIN config THEN MissingFile
       ELSE LET t == loadtxtT(files[config.radiometric_coefficient_file])
            IN  IF Len(t) # 3 THEN BadSize
                ELSE Loaded("radiometric_calibration", t[1], "load_lin")
    /\ UNCHANGED <<inputs, driver, exc, call>>

LoadLinearity ==
    /\ pc = "load_lin"
    /\ IF "linearity_file" \notin DOMAIN config THEN MissingFile
       ELSE LET flat == files[config.linearity_file]
            IN  IF Len(flat) # LinearityLen THEN BadSize
                ELSE Loaded("linearity", flat, "check_nans")
    /\ UNCHANGED <<inputs, driver, exc, call>>

\* the names of the NaN check, in its order (fwhm is not among them)
CheckedNames ==
    <<"dark", "wl", "srf_correction", "crf_correction", "bad", "flat_field",
      "radiometric_calibration", "linearity">>

IsVectorName(name) == name \in {"wl", "fwhm", "radiometric_calibration", "linearity"}

CountNonFinite(name, obj) ==
    IF IsVectorName(name)
    THEN Cardinality({i \in 1..Len(obj) : ~isfinite(obj[i])})
    ELSE Cardinality({rc \in (1..Len(obj)) \X (1..NCols(obj)) :
                        ~isfinite(obj[rc[1]][rc[2]])})

Zeroed(name, obj) ==
    IF IsVectorName(name) THEN ZeroNonFiniteVec(obj) ELSE ZeroNonFinite(obj)

\* the for loop of the NaN check from names on: getattr raises
\* AttributeError at the first name that was not loaded
RECURSIVE CheckLoop(_, _, _)
CheckLoop(cfg, lg, names) ==
    IF names = <<>> THEN [raised |-> FALSE, config |-> cfg, log |-> lg]
    ELSE LET name == Head(names)
         IN  IF name \notin DOMAIN cfg
             THEN [raised |-> TRUE, config |-> cfg, log |-> lg]
             ELSE LET n == CountNonFinite(name, cfg[name])
                  IN  CheckLoop([cfg EXCEPT ![name] = Zeroed(name, @)],
                                IF n > 0
                                THEN Append(lg, <<"warning", "Replacing non-finite values", n, name>>)
                                ELSE lg,
                                Tail(names))

\* faulty variant of CheckNaNs: a name that was not loaded is skipped (getattr with
\* a default), the construction goes on
CheckNaNsSkipMissing ==
    /\ pc = "check_nans"
    /\ LET res == CheckLoop(config, log, CheckedNames)
       IN  /\ config' = res.config
           /\ log' = res.log
           /\ pc' = "finish_config"
           /\ UNCHANGED exc
    /\ UNCHANGED <<inputs, driver, call>>

CheckNaNs ==
    /\ pc = "check_nans"
    /\ LET res == CheckLoop(config, log, CheckedNames)
       IN  /\ config' = res.config
           /\ log' = res.log
           /\ IF res.raised THEN Raise("AttributeError")
              ELSE pc' = "finish_config" /\ UNCHANGED exc
    /\ UNCHANGED <<inputs, driver, call>>

\* flat_field[flat_field < lo] = lo, then flat_field[flat_field > hi] = hi
Clamp(m, lo, hi) ==
    LET low == [r \in 1..Len(m) |-> [c \in 1..Len(m[r]) |->
                    IF Less(m[r][c], lo) THEN lo ELSE m[r][c]]]
    IN  [r \in 1..Len(m) |-> [c \in 1..Len(m[r]) |->
                    IF Less(hi, low[r][c]) THEN hi ELSE low[r][c]]]

\* sp.where(np.logical_not(bad).all(axis=1))[0]
RECURSIVE CleanFrom(_, _)
CleanFrom(bad, r) ==
    IF r > Len(bad) THEN <<>>
    ELSE IF \A c \in 1..Len(bad[r]) : bad[r][c] = R(0)
         THEN <<r>> \o CleanFrom(bad, r + 1)
         ELSE CleanFrom(bad, r + 1)

CleanChannels(bad) == CleanFrom(bad, 1)

\* lines 82-102: clamp, shapes, metadata strings, clean channels.  The
\* names of the input and output files (lines 104-120) are not modelled.
FinishConfig ==
    /\ pc = "finish_config"
    /\ IF {"flat_field", "wl", "fwhm", "bad"} \subseteq DOMAIN config
       THEN LET flat == IF config.flat_field_limits # None
                        THEN Clamp(config.flat_field, config.flat_field_limits[1],
                                   config.flat_field_limits[2])
                        ELSE config.flat_field
                clean == CleanChannels(config.bad)
                nraw  == (config.channels_raw + config.header_channels) * config.columns_raw
            IN  /\ config' =
                     With(With(With(With(With(With(
                        [config EXCEPT !.flat_field = flat],
                        "nframe", config.channels * config.columns),
                        "nraw", nraw),
                        "band_names_string", [i \in 1..Len(config.wl) |-> i - 1]),
                        "fwhm_string", config.fwhm),
                        "wavelength_string", config.wl),
                        "clean", clean)
                /\ log' = Append(log, <<"warning", "clean channels", Len(clean), "">>)
                /\ pc' = "main_start"
                /\ UNCHANGED exc
       ELSE Raise("AttributeError") /\ UNCHANGED <<config, log>>
    /\ UNCHANGED <<inputs, driver, call>>

\* ------------------------------------------------------------------------
\* main(): the stream loop
\* ------------------------------------------------------------------------
Min(a, b) == IF a < b THEN a ELSE b

\* faulty variant of fromfile: every read starts at the beginning of the file
fromfile_rewound(p, n) == SubSeq(stream, 1, Min(n, Len(stream)))

\* sp.fromfile(fin, count=n, dtype=int16) at file position p: the next n
\* samples, or as many as are left
fromfile(p, n) == SubSeq(stream, p + 1, Min(p + n, Len(stream)))

\* np.array(raw, dtype=float32).reshape(shape), header rows dropped
DecodeFrame(samples, cfg) ==
    LET m == reshape2(Ints(samples), cfg.channels_raw + cfg.header_channels,
                      cfg.columns_raw)
    IN  SubSeq(m, cfg.header_channels + 1, Len(m))

Flatten(m) == Concat(m)

flip(m) == [r \in 1..Len(m) |-> m[Len(m) + 1 - r]]

\* (frame.T * radiometric_calibration).T
ScaleRows(m, rc) ==
    [r \in 1..Len(m) |-> [c \in 1..Len(m[r]) |->
        Mul(m[r][c], IF Len(rc) = 1 THEN rc[1] ELSE rc[r])]]

Info(msg, n) == <<"info", msg, n, "">>

config_const == <<inputs, config, call>>

StartCalibration ==
    /\ pc = "main_start"
    /\ LET chunk == fromfile(pos, config.nraw)
       IN  /\ raw' = chunk
           /\ pos' = pos + Len(chunk)
    /\ lines' = 0
    /\ out' = <<>>
    /\ log' = Append(log, Info("Starting calibration", 0))
    /\ pc' = "while"
    /\ UNCHANGED <<config_const, exc, frame, hdr, trace>>

WhileTest ==
    /\ pc = "while"
    /\ pc' = IF Len(raw) > 0 THEN "decode" ELSE "write_header"
    /\ UNCHANGED <<config_const, driver, exc, log>>

\* lines 240-246.  raw keeps the samples read; their float32 form, reshaped
\* and without the header rows, is frame.
Decode ==
    /\ pc = "decode"
    /\ log' = IF lines % 10 = 0 THEN Append(log, Info("Calibrating line", lines)) ELSE log
    /\ IF Len(raw) # config.nraw
       THEN Raise("ValueError") /\ UNCHANGED <<frame, trace>>
       ELSE /\ frame' = DecodeFrame(raw, config)
            /\ trace' = <<>>
            /\ pc' = "subtract_dark"
            /\ UNCHANGED exc
    /\ UNCHANGED <<config_const, pos, raw, out, lines, hdr>>

\* one statement of the loop body: frame = f(frame, ...)
Stage(at, name, result, next) ==
    /\ pc = at
    /\ frame' = result
    /\ trace' = Append(trace, name)
    /\ pc' = next
    /\ UNCHANGED <<config_const, exc, log, pos, raw, out, lines, hdr>>

\* a statement of the loop body that raises
StageRaises(at, name) ==
    /\ pc = at
    /\ Raise(name)
    /\ UNCHANGED <<config_const, log, driver>>

SubtractDark ==
    Stage("subtract_dark", "subtract_dark", subtract_dark(frame, config), "pedestal")

PedestalShift ==
    Stage("pedestal", "correct_pedestal_shift", correct_pedestal_shift(frame, config),
          "panel_ghost")

PanelGhost ==
    LET res == correct_panel_ghost(frame, config)
    IN  IF pc = "panel_ghost" /\ res.raised
        THEN StageRaises("panel_ghost", "ValueError")
        ELSE Stage("panel_ghost", "correct_panel_ghost", res.new, "flat_field")

\* faulty variant of FlatField: the bad-pixel repair is left out of the chain
FlatFieldThenSpectral ==
    Stage("flat_field", "flat_field", MatMap2(Mul, frame, config.flat_field),
          "spectral_resp")

\* faulty variant of FlatField: the product is formed in place in config.flat_field
FlatFieldInPlace ==
    /\ pc = "flat_field"
    /\ frame' = MatMap2(Mul, frame, config.flat_field)
    /\ config' = [config EXCEPT !.flat_field = MatMap2(Mul, frame, config.flat_field)]
    /\ trace' = Append(trace, "flat_field")
    /\ pc' = "fix_bad"
    /\ UNCHANGED <<inputs, call, exc, log, pos, raw, out, lines, hdr>>

FlatField ==
    Stage("flat_field", "flat_field", MatMap2(Mul, frame, config.flat_field), "fix_bad")

FixBad ==
    LET res == fix_bad(frame, config)
    IN  IF pc = "fix_bad" /\ res.raised
        THEN StageRaises("fix_bad", "LinAlgError")
        ELSE Stage("fix_bad", "fix_bad", res.fixed, "spectral_resp")

SpectralResp ==
    Stage("spectral_resp", "correct_spectral_resp",
          correct_spectral_resp(frame, config.srf_correction), "spatial_resp")

SpatialResp ==
    Stage("spatial_resp", "correct_spatial_resp",
          correct_spatial_resp(frame, config.crf_correction), "radiometry")

Radiometry ==
    IF pc = "radiometry" /\ Len(config.radiometric_calibration) \notin {1, Len(frame)}
    THEN StageRaises("radiometry", "ValueError")
    ELSE Stage("radiometry", "radiometric_calibration",
               ScaleRows(frame, config.radiometric_calibration), "zero_nonfinite")

CatchNaNs ==
    Stage("zero_nonfinite", "zero_nonfinite", ZeroNonFinite(frame), "reverse")

\* if config.reverse_channels: frame = sp.flip(frame, axis=0)
ReverseChannels ==
    /\ pc = "reverse"
    /\ IF config.reverse_channels
       THEN frame' = flip(frame) /\ trace' = Append(trace, "flip")
       ELSE UNCHANGED <<frame, trace>>
    /\ pc' = "write"
    /\ UNCHANGED <<config_const, exc, log, pos, raw, out, lines, hdr>>

WriteFrame ==
    /\ pc = "write"
    /\ out' = Append(out, Flatten(frame))
    /\ trace' = Append(trace, "tofile")
    /\ lines' = lines + 1
    /\ pc' = "read_next"
    /\ UNCHANGED <<config_const, exc, log, pos, raw, frame, hdr>>

ReadNext ==
    /\ pc = "read_next"
    /\ LET chunk == fromfile(pos, config.nraw)
       IN  /\ raw' = chunk
           /\ pos' = pos + Len(chunk)
    /\ pc' = "while"
    /\ UNCHANGED <<config_const, exc, log, frame, out, lines, hdr, trace>>

WriteHeader ==
    /\ pc = "write_header"
    /\ hdr' = [lines      |-> lines,
               samples    |-> config.columns_raw,
               bands      |-> config.channels_raw,
               wavelength |-> config.wavelength_string,
               fwhm       |-> config.fwhm_string,
               band_names |-> config.band_names_string]
    /\ log' = Append(log, Info("Done", 0))
    /\ pc' = "done"
    /\ UNCHANGED <<config_const, exc, pos, raw, frame, out, lines, trace>>

\* the loop body as one function of the raw record: [raised, frame]
CorrectedRecord(samples, cfg) ==
    LET f0 == DecodeFrame(samples, cfg)
        f1 == subtract_dark(f0, cfg)
        f2 == correct_pedestal_shift(f1, cfg)
        g  == correct_panel_ghost(f2, cfg)
        f4 == MatMap2(Mul, g.new, cfg.flat_field)
        b  == fix_bad(f4, cfg)
        f6 == correct_spectral_resp(b.fixed, cfg.srf_correction)
        f7 == correct_spatial_resp(f6, cfg.crf_correction)
        f8 == ScaleRows(f7, cfg.radiometric_calibration)
        f9 == ZeroNonFinite(f8)
    IN  [raised |-> g.raised \/ b.raised,
         frame  |-> IF cfg.reverse_channels THEN flip(f9) ELSE f9]

\* ------------------------------------------------------------------------
\* fix_bad on its own: any frame, any mask, one loop iteration per step
\* ------------------------------------------------------------------------
\* the largest sample of a frame handed to fix_bad
MaxSample == 1

\* frames of 3 channels x 3 columns: columns 1 and 2 hold any samples of
\* 0..MaxSample, column 3 is one of three patterns
ThirdColumns == {<<1, 0, 1>>, <<0, 1, 0>>, <<0, 0, 0>>}

BadFrames ==
    {[r \in 1..3 |-> [c \in 1..3 |-> R(IF c = 3 THEN t[r] ELSE f[r][c])]] :
        f \in [1..3 -> [1..2 -> 0..MaxSample]], t \in ThirdColumns}

Mask(flagged) ==
    [r \in 1..3 |-> [c \in 1..3 |-> IF <<r, c>> \in flagged THEN R(1) ELSE R(0)]]

BadMasks ==
    {Mask({}),
     Mask({<<3, 1>>}),
     Mask({<<3, 1>>, <<3, 2>>}),
     Mask({<<3, 2>>, <<2, 3>>}),
     Mask({<<1, 1>>, <<2, 2>>, <<3, 3>>})}

main_idle == <<pc, exc, json, files, config, log, stream, pos, raw, frame, out,
               lines, hdr, trace>>

\* fixed = frame.copy(); the columns of the for loop
FixBadEnter ==
    /\ call.fn = "fix_bad" /\ call.at = "enter"
    /\ call' = [call EXCEPT !.at = "loop",
                            !.fixed = call.frame,
                            !.cols = FlaggedColumns(call.config.bad)]
    /\ UNCHANGED <<lapack, main_idle>>

\* fixed[:,col] = infer_bad(frame, col, config)
FixBadColumn ==
    /\ call.fn = "fix_bad" /\ call.at = "loop" /\ call.cols # <<>>
    /\ LET st == FixColumn([raised |-> FALSE, frame |-> call.frame,
                            fixed |-> call.fixed, picks |-> call.picks],
                           Head(call.cols), call.config)
       IN  call' = IF st.raised
                   THEN [call EXCEPT !.at = "raised"]
                   ELSE [call EXCEPT !.frame = st.frame,
                                     !.fixed = st.fixed,
                                     !.cols = Tail(call.cols),
                                     !.picks = st.picks]
    /\ UNCHANGED <<lapack, main_idle>>

FixBadReturn ==
    /\ call.fn = "fix_bad" /\ call.at = "loop" /\ call.cols = <<>>
    /\ call' = [call EXCEPT !.at = "returned"]
    /\ UNCHANGED <<lapack, main_idle>>

\* ------------------------------------------------------------------------
\* correct_panel_ghost on its own
\* ------------------------------------------------------------------------
\* frames of four panels: 2 x 4 with panel_width 1 (the second row is the
\* first reversed), 1 x 8 with panel_width 2
GhostFrames ==
    {[pw |-> 1, frame |-> <<[c \in 1..4 |-> R(f[c])], [c \in 1..4 |-> R(f[5 - c])]>>] :
        f \in [1..4 -> 0..MaxSample]}
    \cup
    {[pw |-> 2, frame |-> <<[c \in 1..8 |-> R(f[c])]>>] :
        f \in [1..8 -> 0..MaxSample]}

GhostCoefficients ==
    {[g |-> R(0), t |-> <<>>],
     [g |-> R(0), t |-> <<R(0)>>],
     [g |-> R(0), t |-> <<R(0), R(0)>>],
     [g |-> <<1, 4>>, t |-> <<R(0)>>],
     [g |-> R(0), t |-> <<<<1, 2>>>>]}

PanelGhostCall ==
    /\ call.fn = "correct_panel_ghost" /\ call.at = "enter"
    /\ LET res == correct_panel_ghost(call.frame0, call.config)
       IN  call' = IF res.raised
                   THEN [call EXCEPT !.at = "raised"]
                   ELSE [call EXCEPT !.at = "returned", !.new = res.new]
    /\ UNCHANGED <<lapack, main_idle>>

Idle ==
    /\ pc = "idle"
    /\ exc = ""
    /\ json = <<>>
    /\ files = <<>>
    /\ config = <<>>
    /\ log = <<>>
    /\ stream = <<>>
    /\ pos = 0
    /\ raw = <<>>
    /\ frame = <<>>
    /\ out = <<>>
    /\ lines = 0
    /\ hdr = <<>>
    /\ trace = <<>>

InitBad ==
    /\ Idle
    /\ lapack \in LapackModes
    /\ \E f \in BadFrames, m \in BadMasks :
          call = [fn |-> "fix_bad", at |-> "enter",
                  config |-> [bad |-> m, clean |-> CleanChannels(m)],
                  frame0 |-> f, frame |-> f, fixed |-> <<>>, cols |-> <<>>,
                  picks |-> <<>>]

NextBad == FixBadEnter \/ FixBadColumn \/ FixBadReturn

SpecBad == InitBad /\ [][NextBad]_vars

InitGhost ==
    /\ Idle
    /\ lapack = "raise"
    /\ \E f \in GhostFrames, k \in GhostCoefficients :
          call = [fn |-> "correct_panel_ghost", at |-> "enter",
                  config |-> [panel_width |-> f.pw, pg_template |-> k.t,
                              panel_ghost_correction |-> k.g],
                  frame0 |-> f.frame, new |-> <<>>]

NextGhost == PanelGhostCall

SpecGhost == InitGhost /\ [][NextGhost]_vars

NoCall == [fn |-> "none"]

Init ==
    /\ lapack \in LapackModes
    /\ \E sc \in Scenarios : json = sc[1] /\ files = sc[2]
    /\ stream \in Streams
    /\ pc = "config_open"
    /\ exc = ""
    /\ config = <<>>
    /\ log = <<>>
    /\ pos = 0
    /\ raw = <<>>
    /\ frame = <<>>
    /\ out = <<>>
    /\ lines = 0
    /\ hdr = <<>>
    /\ trace = <<>>
    /\ call = NoCall

Next ==
    \/ ReadConfig \/ LoadDark \/ LoadSpectral \/ LoadSrf \/ LoadCrf \/ LoadBad
    \/ LoadFlat \/ LoadRadiometric \/ LoadLinearity \/ CheckNaNs \/ FinishConfig
    \/ StartCalibration \/ WhileTest \/ Decode
    \/ SubtractDark \/ PedestalShift \/ PanelGhost \/ FlatField \/ FixBad
    \/ SpectralResp \/ SpatialResp \/ Radiometry \/ CatchNaNs \/ ReverseChannels
    \/ WriteFrame \/ ReadNext \/ WriteHeader

Spec == Init /\ [][Next]_vars
\* ------------------------------------------------------------------------
\* properties
\* ------------------------------------------------------------------------
ConfigPcs ==
    {"config_open", "load_dark", "load_spectral", "load_srf", "load_crf", "load_bad",
     "load_flat", "load_rad", "load_lin", "check_nans", "finish_config"}

LoopPcs ==
    {"decode", "subtract_dark", "pedestal", "panel_ghost", "flat_field", "fix_bad",
     "spectral_resp", "spatial_resp", "radiometry", "zero_nonfinite", "reverse",
     "write", "read_next"}

MainPcs == LoopPcs \cup {"main_start", "while", "write_header", "done"}

Constructed == "nraw" \in DOMAIN config

LoadFailed == \E i \in 1..Len(log) : log[i][1] = "error"

TensorNames ==
    {"dark", "wl", "fwhm", "srf_correction", "crf_correction", "bad", "flat_field",
     "radiometric_calibration", "linearity"}

\* the k-th complete record of the input stream
InputRecord(k) == SubSeq(stream, (k - 1) * config.nraw + 1, k * config.nraw)

\* C1: once the reader has returned a record shorter than nraw (a partial
\* trailing record included), no error is raised: the run is at the loop
\* test, writing the header, or done.
C1_ShortRecordEndsStream ==
    (Constructed /\ Len(raw) < config.nraw /\ pc \notin ConfigPcs)
        => /\ pc \in {"main_start", "while", "write_header", "done"}
           /\ exc = ""

C3_OrderPreserved ==
    pc \in MainPcs =>
        /\ pc \in {"read_next", "done"} =>
              \A k \in 1..Len(out) :
                  /\ k * config.nraw <= Len(stream)
                  /\ out[k] = Flatten(CorrectedRecord(InputRecord(k), config).frame)
        /\ lines = Len(out)
        /\ (pc = "done" /\ Len(stream) % config.nraw = 0)
              => Len(out) = Len(stream) \div config.nraw

\* C3 witness: a stream of two different complete records was processed to
\* the end
C3_Witness ==
    /\ pc = "done" /\ Len(stream) = 2 * config.nraw
    /\ Len(out) = 2 /\ out[1] # out[2]

\* the tensor of a Config attribute as it stands in its file
SourceTensor(name) ==
    CASE name = "dark" -> reshape2(files.dark, channels_raw, columns_raw)
      [] name = "wl" -> Scale(loadtxtT(files.spectral)[2], 1000)
      [] name = "fwhm" -> Scale(loadtxtT(files.spectral)[3], 1000)
      [] name = "srf_correction" -> reshape2(files.srf, channels_raw, channels_raw)
      [] name = "crf_correction" -> reshape2(files.crf, columns_raw, columns_raw)
      [] name = "bad" -> reshape2(files.bad, channels_raw, columns_raw)
      [] name = "flat_field" -> reshape2(files.flat, channels_raw, columns_raw)
      [] name = "radiometric_calibration" -> loadtxtT(files.rad)[1]
      [] OTHER -> files.lin

FiniteAndZeroed(name) ==
    LET src == SourceTensor(name)
        obj == config[name]
    IN  IF IsVectorName(name)
        THEN \A i \in 1..Len(obj) :
                isfinite(obj[i]) /\ (~isfinite(src[i]) => obj[i] = R(0))
        ELSE \A r \in 1..Len(obj) : \A c \in 1..Len(obj[r]) :
                isfinite(obj[r][c]) /\ (~isfinite(src[r][c]) => obj[r][c] = R(0))

\* C4: after Config construction every element of every calibration tensor
\* (fwhm included) is finite, and every element that was non-finite in the
\* source data reads 0 (for the flat field also with clamp bounds set).
C4_TensorsFiniteAndZeroed ==
    (pc \in MainPcs /\ Constructed) => \A name \in TensorNames : FiniteAndZeroed(name)

\* the statements of the loop body of main(), in source order
StageOrder(reverse) ==
    <<"subtract_dark", "correct_pedestal_shift", "correct_panel_ghost", "flat_field",
      "fix_bad", "correct_spectral_resp", "correct_spatial_resp",
      "radiometric_calibration", "zero_nonfinite">>
    \o (IF reverse THEN <<"flip">> ELSE <<>>) \o <<"tofile">>

\* C5: when a frame has been written, the statements run on it were, once
\* each and in this order: dark subtraction, pedestal shift, panel ghost,
\* flat field, bad-pixel repair, spectral response, spatial response,
\* radiometric scaling, non-finite zeroing, the channel flip if configured,
\* the write; while a frame is in processing the statements run so far are
\* a prefix of that list.
C5_StageOrder ==
    pc \in LoopPcs \ {"decode"} =>
        LET expected == StageOrder(config.reverse_channels)
        IN  /\ Len(trace) <= Len(expected)
            /\ trace = SubSeq(expected, 1, Len(trace))
            /\ pc = "read_next" => trace = expected
            /\ pc = "write" => trace = SubSeq(expected, 1, Len(expected) - 1)

\* C5 witness: a second frame was written, with the channel flip configured
C5_Witness == pc = "read_next" /\ lines = 2 /\ config.reverse_channels

\* C6: in the frame fix_bad returns, every position that is not flagged
\* holds the value of the frame passed in.
C6_UnflaggedUnchanged ==
    (call.fn = "fix_bad" /\ call.at = "returned") =>
        \A r \in 1..3, c \in 1..3 :
            call.config.bad[r][c] = R(0) =>
                /\ call.fixed[r][c] = call.frame0[r][c]
                /\ call.fixed[r][c] = call.frame[r][c]

\* C6 witness: fix_bad returned after changing the value of a flagged pixel
C6_Witness ==
    /\ call.fn = "fix_bad" /\ call.at = "returned"
    /\ \E r \in 1..3, c \in 1..3 :
          call.config.bad[r][c] # R(0) /\ call.fixed[r][c] # call.frame0[r][c]

\* C7: the repair of each flagged column reads only the frame as it was on
\* entry to fix_bad: every repaired column of the result is what infer_bad
\* gives for that column on the entry frame.
C7_ColumnsIndependent ==
    (call.fn = "fix_bad" /\ call.at = "returned") =>
        \A i \in 1..Len(call.picks) :
            LET col == call.picks[i].col
            IN  Column(call.fixed, col) = infer_bad(call.frame0, col, call.config).new

\* the call was made with no ghost to remove
ZeroGhost ==
    /\ call.config.panel_ghost_correction = R(0)
    /\ \A k \in 1..Len(call.config.pg_template) : call.config.pg_template[k] = R(0)

\* C8: with panel_ghost_correction = 0 and an all-zero pg_template,
\* correct_panel_ghost returns its input frame.
C8_ZeroGhostIsNoOp ==
    (call.fn = "correct_panel_ghost" /\ call.at = "returned" /\ ZeroGhost)
        => call.new = call.frame0

\* C8 witness: a non-zero frame went through the template columns with
\* zero coefficients
C8_Witness ==
    /\ call.fn = "correct_panel_ghost" /\ call.at = "returned" /\ ZeroGhost
    /\ call.config.pg_template # <<>>
    /\ \A c \in 1..NCols(call.frame0) : call.frame0[1][c] # R(0)

\* C9: no step of main() after the construction of the Config changes the
\* Config.
C9_ConfigReadOnly == [][(pc \in MainPcs) => (config' = config)]_vars

\* C9 witness: two frames were processed, bad-pixel repair included
C9_Witness ==
    /\ pc = "done" /\ lines = 2
    /\ FlaggedColumns(config.bad) # <<>>

\* C10: the reference column best of every repaired column is another
\* column, holds no flagged pixel, and so no value read from it for a
\* repaired row is a flagged pixel.
C10_BestIsClean ==
    call.fn = "fix_bad" =>
        \A i \in 1..Len(call.picks) :
            LET pick == call.picks[i]
            IN  /\ pick.best # pick.col
                /\ \A r \in 1..3 : call.config.bad[r][pick.best] = R(0)
====
